---- MODULE Spec2Model ----
(***************************************************************************)
(* Model of the GitShame roaster service (src/server/main.py).             *)
(*                                                                         *)
(* The service is stateless per request.  A behaviour of the model fixes   *)
(* one RoastRequest and the process environment in its initial state and   *)
(* then applies the handlers to it; the last handler's name, the outcome   *)
(* of the external generative call and the handler's response are kept in  *)
(* the state so that the contracts can be stated over them.                *)
(*                                                                         *)
(* Representation choices                                                  *)
(*  - A Python dict read with .get(k, default) is a function whose DOMAIN  *)
(*    holds the keys that are present; an absent key is absent from the    *)
(*    DOMAIN and Get returns the default.                                  *)
(*  - timeOfDay keeps its insertion order: it is a sequence of             *)
(*    <<key, value>> pairs with distinct keys.                             *)
(*  - followRatio is a float in the source; the model keeps it in          *)
(*    hundredths (0.21 is 21), so 0.5, 0.3 and the default 1 are 50, 30    *)
(*    and 100.                                                             *)
(*  - night > sum * 0.4 (and * 0.5) over integers is computed as           *)
(*    night * 10 > sum * 4 (and * 5), which agrees with the float          *)
(*    comparison for every count within the model's range.                 *)
(*  - Roast texts are the source's strings without the trailing emoji.     *)
(***************************************************************************)
EXTENDS Integers, Sequences, FiniteSets, TLC

VARIABLES request, environ, op, call, response

vars == <<request, environ, op, call, response>>

(***************************************************************************)
(* Bounds of the model.                                                    *)
(***************************************************************************)
\* largest commit count stored under one timeOfDay key
MaxCommits == 2
\* longest list of roasts the external service returns
MaxAiRoasts == 9
\* longest returned list whose entries are drawn freely
MaxVariedRoasts == 2

(***************************************************************************)
(* Program constants.                                                      *)
(***************************************************************************)
NewAccountDays == 365
VeteranDays == 3650
DaysPerYear == 365
NightTenthsFallback == 4
NightTenthsScore == 5
Tenths == 10
EmojiManyFallback == 10
EmojiManyScore == 15
FollowLowFallback == 50
FollowLowScore == 30
FollowDefaultScore == 100
AbandonedManyScore == 2
LazyLength == 10
MinRoasts == 3
MaxFallbackRoasts == 6
WeightQuestionable == 20
WeightEmojiOveruse == 15
WeightEmojiDrought == 10
WeightAbandonment == 25
WeightSocial == 15
WeightNightOwl == 20
WeightLazy == 10
HighScore == 60
ModerateScore == 30

(***************************************************************************)
(* Python helpers.                                                         *)
(***************************************************************************)
EmptyDict == [k \in {} |-> 0]

\* dict.get(key, default)
Get(d, k, default) == IF k \in DOMAIN d THEN d[k] ELSE default

\* dict.get on an insertion-ordered mapping kept as a sequence of pairs
PairsGet(ps, k, default) ==
    IF \E i \in 1..Len(ps) : ps[i][1] = k
    THEN LET i == CHOOSE j \in 1..Len(ps) : ps[j][1] = k IN ps[i][2]
    ELSE default

\* sum(mapping.values())
RECURSIVE SumValues(_)
SumValues(ps) == IF ps = <<>> THEN 0 ELSE Head(ps)[2] + SumValues(Tail(ps))

\* seq[:n]
Take(s, n) == SubSeq(s, 1, IF Len(s) < n THEN Len(s) ELSE n)

RECURSIVE SumSeq(_)
SumSeq(s) == IF s = <<>> THEN 0 ELSE Head(s) + SumSeq(Tail(s))

(***************************************************************************)
(* generate_fallback_roasts: the rule engine used when the AI path fails.  *)
(***************************************************************************)
NewAccountRoast(login) ==
    "Welcome to GitHub, " \o login \o "! Still figuring out what a commit is, I see."

VeteranRoast(account_age) ==
    "Been here " \o ToString(account_age \div DaysPerYear)
        \o " years and still haven't learned to write decent commit messages? Classic!"

NightOwlRoast ==
    "I see you're a fellow member of the '3 AM commit club'. Sleep is overrated anyway!"

EmojiOveruseRoast ==
    "Your commits have more emojis than a teenager's text messages. Very professional!"

EmojiDroughtRoast ==
    "Zero emojis in your commits? What are you, a robot? Even robots use emojis now!"

AbandonedRoast(abandoned_repos) ==
    "You have " \o ToString(abandoned_repos)
        \o " abandoned repos. GitHub isn't a graveyard for your coding dreams!"

FollowRatioRoast ==
    "Following more people than follow you back? That's the developer equivalent of unrequited love!"

FillerRoasts ==
    << "Your code commits tell a story... mostly about debugging at 2 AM!",
       "I've seen more organization in a tornado than in your repository structure!",
       "Your commit messages are like modern art - nobody understands them, but everyone pretends they do!" >>

\* mutant: both account-age thresholds taken inclusively
AccountAgeRule_Inclusive(req) ==
    LET account_age == Get(req.analysis.userStats, "accountAge", 0) IN
    IF account_age <= NewAccountDays THEN << NewAccountRoast(req.user.login) >>
    ELSE IF account_age >= VeteranDays THEN << VeteranRoast(account_age) >>
    ELSE << >>

\* lines 243-248
AccountAgeRule(req) ==
    LET account_age == Get(req.analysis.userStats, "accountAge", 0) IN
    IF account_age < NewAccountDays THEN << NewAccountRoast(req.user.login) >>
    ELSE IF account_age > VeteranDays THEN << VeteranRoast(account_age) >>
    ELSE << >>

\* mutant: the night share compared with >= instead of >
NightShareExceeds_AtLeast(commit_times, tenths) ==
    PairsGet(commit_times, "night", 0) * Tenths >= SumValues(commit_times) * tenths

\* commit_times.get('night', 0) > sum(commit_times.values()) * (tenths / 10)
NightShareExceeds(commit_times, tenths) ==
    PairsGet(commit_times, "night", 0) * Tenths > SumValues(commit_times) * tenths

\* lines 250-253
NightOwlRule(req) ==
    LET commit_times == Get(req.analysis.commitPatterns, "timeOfDay", << >>) IN
    IF NightShareExceeds(commit_times, NightTenthsFallback) THEN << NightOwlRoast >> ELSE << >>

\* lines 255-260
EmojiRule(req) ==
    LET emoji_count == Get(req.analysis.emojiUsage, "count", 0) IN
    IF emoji_count > EmojiManyFallback THEN << EmojiOveruseRoast >>
    ELSE IF emoji_count = 0 THEN << EmojiDroughtRoast >>
    ELSE << >>

\* lines 262-265
AbandonedRule(req) ==
    LET abandoned_repos == Get(req.analysis.repoAnalysis, "abandonedRepos", 0) IN
    IF abandoned_repos > 0 THEN << AbandonedRoast(abandoned_repos) >> ELSE << >>

\* lines 267-270
FollowRatioRule(req) ==
    LET follow_ratio == Get(req.analysis.userStats, "followRatio", 0) IN
    IF follow_ratio < FollowLowFallback THEN << FollowRatioRoast >> ELSE << >>

\* mutant: the rule chain stops at the first rule that fires
RuleRoasts_EarlyExit(req) ==
    IF AccountAgeRule(req) # << >> THEN AccountAgeRule(req)
    ELSE IF NightOwlRule(req) # << >> THEN NightOwlRule(req)
    ELSE IF EmojiRule(req) # << >> THEN EmojiRule(req)
    ELSE IF AbandonedRule(req) # << >> THEN AbandonedRule(req)
    ELSE FollowRatioRule(req)

\* the list after the five rule blocks, lines 241-270
RuleRoasts(req) ==
    AccountAgeRule(req) \o NightOwlRule(req) \o EmojiRule(req)
        \o AbandonedRule(req) \o FollowRatioRule(req)

\* mutant: the filler pass left out
FillerPass_Skipped(roasts) == roasts

\* mutant: the fillers are added up to and including 3 rule roasts
FillerPass_AtMost(roasts) ==
    IF Len(roasts) <= MinRoasts THEN roasts \o FillerRoasts ELSE roasts

\* mutant: the fillers are added whatever the rules produced
FillerPass_Always(roasts) == roasts \o FillerRoasts

\* lines 272-278
FillerPass(roasts) ==
    IF Len(roasts) < MinRoasts THEN roasts \o FillerRoasts ELSE roasts

\* the list before the final slice
UntruncatedRoasts(req) == FillerPass(RuleRoasts(req))

\* line 280
generate_fallback_roasts(req) == Take(UntruncatedRoasts(req), MaxFallbackRoasts)

(***************************************************************************)
(* analyze_roast_potential: the additive roastability score.               *)
(* Each rule yields the <<tag, weight>> entries it appends (0 or 1).       *)
(***************************************************************************)
Entry(tag, weight) == << [tag |-> tag, weight |-> weight] >>

\* lines 293-295: a non-empty list is truthy
QuestionableScore(req) ==
    IF Get(req.analysis.commitLanguage, "questionableMessages", << >>) # << >>
    THEN Entry("questionable_commits", WeightQuestionable) ELSE << >>

\* lines 297-302
EmojiScore(req) ==
    IF Get(req.analysis.emojiUsage, "count", 0) > EmojiManyScore
    THEN Entry("emoji_overuse", WeightEmojiOveruse)
    ELSE IF Get(req.analysis.emojiUsage, "count", 0) = 0
    THEN Entry("emoji_drought", WeightEmojiDrought)
    ELSE << >>

\* lines 304-306
AbandonmentScore(req) ==
    IF Get(req.analysis.repoAnalysis, "abandonedRepos", 0) > AbandonedManyScore
    THEN Entry("repo_abandonment", WeightAbandonment) ELSE << >>

\* lines 308-310
SocialScore(req) ==
    IF Get(req.analysis.userStats, "followRatio", FollowDefaultScore) < FollowLowScore
    THEN Entry("social_awkwardness", WeightSocial) ELSE << >>

\* mutant: the scorer reuses the fallback's 40% threshold
NightOwlScore_FortyPercent(req) ==
    LET commit_times == Get(req.analysis.commitPatterns, "timeOfDay", << >>) IN
    IF NightShareExceeds(commit_times, NightTenthsFallback)
    THEN << [tag |-> "night_owl_coding", weight |-> WeightNightOwl] >> ELSE << >>

\* lines 312-315
NightOwlScore(req) ==
    LET commit_times == Get(req.analysis.commitPatterns, "timeOfDay", << >>) IN
    IF NightShareExceeds(commit_times, NightTenthsScore)
    THEN Entry("night_owl_coding", WeightNightOwl) ELSE << >>

\* lines 317-319
LazyScore(req) ==
    IF Get(req.analysis.commitLanguage, "averageLength", 0) < LazyLength
    THEN Entry("lazy_commit_messages", WeightLazy) ELSE << >>

\* lines 289-319, in source order
ScoreEntries(req) ==
    QuestionableScore(req) \o EmojiScore(req) \o AbandonmentScore(req)
        \o SocialScore(req) \o NightOwlScore(req) \o LazyScore(req)

\* mutant: the tier boundaries taken strictly
RoastabilityLevel_Strict(roast_score) ==
    IF roast_score > HighScore THEN "highly_roastable"
    ELSE IF roast_score > ModerateScore THEN "moderately_roastable"
    ELSE "minimally_roastable"

\* lines 321-330
RoastabilityLevel(roast_score) ==
    IF roast_score >= HighScore THEN "highly_roastable"
    ELSE IF roast_score >= ModerateScore THEN "moderately_roastable"
    ELSE "minimally_roastable"

LevelMessage(roast_score) ==
    IF roast_score >= HighScore THEN "This developer is a goldmine for roasts!"
    ELSE IF roast_score >= ModerateScore THEN "Some good roast material here."
    ELSE "This developer is suspiciously well-behaved..."

Suggestions ==
    << "Try committing at 3 AM for bonus roast points!",
       "Add more emojis to your commit messages!",
       "Create a repo called 'my-awesome-project' and abandon it!",
       "Write commit messages like 'fix stuff' and 'idk anymore'!" >>

analyze_roast_potential(req) ==
    LET entries == ScoreEntries(req)
        roast_score == SumSeq([i \in 1..Len(entries) |-> entries[i].weight])
    IN [ roast_score |-> roast_score,
         roastability_level |-> RoastabilityLevel(roast_score),
         message |-> LevelMessage(roast_score),
         roast_factors |-> [i \in 1..Len(entries) |-> entries[i].tag],
         suggestions |-> Suggestions ]

(***************************************************************************)
(* generate_roasts: the AI path with its fallback.                         *)
(*                                                                         *)
(* The outcome of client.models.generate_content followed by               *)
(* response.parsed is one of                                               *)
(*   [kind |-> "raise", exc |-> e]     the call raised e                   *)
(*   [kind |-> "none"]                 parsed is None (schema mismatch)    *)
(*   [kind |-> "parsed", roasts |-> <<RoastLine...>>, overall_tone |-> t]  *)
(* An exception is [class, status_code, detail]: the status and detail     *)
(* are what the framework answers when the exception leaves the handler.   *)
(***************************************************************************)
HTTPException(status_code, detail) ==
    [class |-> "HTTPException", status_code |-> status_code, detail |-> detail]

ServiceError(class) ==
    [class |-> class, status_code |-> 500, detail |-> "Internal Server Error"]

\* the classes `except Exception` catches: every class raised here derives
\* from Exception, fastapi's HTTPException included
DerivesFromException(class) ==
    class \in {"HTTPException", "APIError", "ConnectError", "ValidationError", "ValueError"}

\* os.getenv("GEMINI_API_KEY"), line 187: None and "" are falsy
KeyConfigured(env) ==
    /\ "GEMINI_API_KEY" \in DOMAIN env
    /\ env["GEMINI_API_KEY"] # ""

Returned(body) == [raised |-> FALSE, status |-> 200, body |-> body]
Raised(exc) == [raised |-> TRUE, exc |-> exc]

(***************************************************************************)
(* create_roast_prompt.                                                    *)
(*                                                                         *)
(* The prompt is kept as the sequence of its lines that depend on the      *)
(* request; the fixed instruction text around them is left out.  An        *)
(* Optional[str] is << >> for None and <<s>> for the string s.  A step     *)
(* that can raise yields Raised(exc) or Value(v).                          *)
(***************************************************************************)
Value(v) == [raised |-> FALSE, value |-> v]

PyNone == << >>
Some(str) == << str >>

\* x or default, for an Optional[str]: None and "" are falsy
OrElse(x, default) == IF x = PyNone \/ x = Some("") THEN default ELSE x[1]

\* sep.join(strs)
RECURSIVE Join(_, _)
Join(strs, sep) ==
    IF strs = << >> THEN ""
    ELSE IF Len(strs) = 1 THEN strs[1]
    ELSE strs[1] \o sep \o Join(Tail(strs), sep)

\* list(mapping.keys())
Keys(ps) == [i \in 1..Len(ps) |-> ps[i][1]]

\* the hundredths below 100 that f"{x:.1f}" rounds up although they end in 5
\* (0.05, 0.45, 0.55, 0.65 and 0.75 lie above the tie as binary floats)
TiesRoundedUp == {5, 45, 55, 65, 75}

\* f"{x:.1f}" for x given in hundredths, 0 <= x < 10
Format1f(hundredths) ==
    LET tenths == IF hundredths % 10 = 5 /\ hundredths \notin TiesRoundedUp
                  THEN hundredths \div 10
                  ELSE (hundredths + 5) \div 10
    IN ToString(tenths \div 10) \o "." \o ToString(tenths % 10)

\* max(commit_times, key=commit_times.get): the scan keeps the first key
\* whose value no later key exceeds; max() of an empty iterable raises
RECURSIVE MaxScan(_, _)
MaxScan(ps, best) ==
    IF ps = << >> THEN best
    ELSE MaxScan(Tail(ps), IF Head(ps)[2] > best[2] THEN Head(ps) ELSE best)

\* mutant: the scan replaces its candidate on an equal value too
PyMaxKey_LastWins(ps) ==
    IF ps = << >> THEN Raised(ServiceError("ValueError"))
    ELSE LET RECURSIVE Scan(_, _)
             Scan(rest, best) ==
                 IF rest = << >> THEN best
                 ELSE Scan(Tail(rest), IF Head(rest)[2] >= best[2] THEN Head(rest) ELSE best)
         IN Value(Scan(Tail(ps), Head(ps))[1])

PyMaxKey(ps) ==
    IF ps = << >> THEN Raised(ServiceError("ValueError"))
    ELSE Value(MaxScan(Tail(ps), Head(ps))[1])

\* mutant: max() called without the emptiness guard
MostActiveTime_Unguarded(commit_times) == PyMaxKey(commit_times)

\* line 99
MostActiveTime(commit_times) ==
    IF commit_times # << >> THEN PyMaxKey(commit_times) ELSE Value("unknown")

\* line 151
RepoLine(repo) ==
    "- " \o repo.name \o ": " \o OrElse(repo.description, "No description")
        \o " (" \o OrElse(repo.language, "Unknown language") \o ")"

\* lines 84-177, once most_active_time is known
PromptLines(req, most_active_time) ==
    LET user == req.user
        repos == req.repos
        commits == req.commits
        analysis == req.analysis
        account_age == Get(analysis.userStats, "accountAge", 0)
        languages == Take(Keys(Get(analysis.repoAnalysis, "languages", << >>)), 3)
        questionable_commits ==
            Take(Get(analysis.commitLanguage, "questionableMessages", << >>), 5)
        emoji_count == Get(analysis.emojiUsage, "count", 0)
        top_emojis == Take(Get(analysis.emojiUsage, "topEmojis", << >>), 3)
        abandoned_repos == Get(analysis.repoAnalysis, "abandonedRepos", 0)
        one_commit_wonders == Get(analysis.repoAnalysis, "oneCommitWonders", 0)
        naming_patterns == Get(analysis.repoAnalysis, "namingPatterns", << >>)
        follow_ratio == Get(analysis.userStats, "followRatio", 0)
        repo_to_star_ratio == Get(analysis.userStats, "repoToStarRatio", 0)
        shown_questionable == Take(questionable_commits, 3)
        shown_repos == Take(repos, 3)
    IN << "- Username: " \o user.login,
          "- Name: " \o OrElse(user.name, "No name provided"),
          "- Bio: " \o OrElse(user.bio, "No bio"),
          "- Account Age: " \o ToString(account_age) \o " days",
          "- Public Repos: " \o ToString(user.public_repos),
          "- Followers: " \o ToString(user.followers),
          "- Following: " \o ToString(user.following),
          "- Primary Languages: "
              \o (IF languages # << >> THEN Join(languages, ", ") ELSE "None detected"),
          "- Most Active Time: " \o most_active_time,
          "- Total Commits Analyzed: " \o ToString(Len(commits)),
          "- Emoji Usage: " \o ToString(emoji_count) \o " emojis found",
          "- Top Emojis: "
              \o Join([i \in 1..Len(top_emojis) |-> Get(top_emojis[i], "emoji", "")], ", "),
          "- Total Repos: " \o ToString(Len(repos)),
          "- Abandoned Repos: " \o ToString(abandoned_repos),
          "- One-Commit Wonders: " \o ToString(one_commit_wonders),
          "- Naming Patterns: " \o Join(Take(naming_patterns, 3), ", "),
          "- Average Stars per Repo: " \o Format1f(repo_to_star_ratio),
          "- Follow Ratio: " \o Format1f(follow_ratio) \o " (followers/following)" >>
        \o [i \in 1..Len(shown_questionable) |-> "- " \o shown_questionable[i]]
        \o [i \in 1..Len(shown_repos) |-> RepoLine(shown_repos[i])]

\* lines 98-99: the one step of create_roast_prompt that can raise
PromptActiveTime(req) ==
    MostActiveTime(Get(req.analysis.commitPatterns, "timeOfDay", << >>))

\* lines 81-179
create_roast_prompt(req) ==
    LET most_active_time == PromptActiveTime(req)
    IN IF most_active_time.raised THEN most_active_time
       ELSE Value(PromptLines(req, most_active_time.value))

\* lines 213-214 and 232-233
FallbackBody(req) ==
    [ roasts |-> generate_fallback_roasts(req),
      source |-> "fallback",
      overall_tone |-> "mysterious" ]

\* mutant: only a missing parsed result counts as a failure
AiFailed_NoneOnly(outcome) == outcome.kind = "none"

\* line 211: not roast_data or not roast_data.roasts
AiFailed(outcome) ==
    \/ outcome.kind = "none"
    \/ outcome.kind = "parsed" /\ outcome.roasts = << >>

\* mutant: the two metadata lists read each other's field
Metadata_Swapped(roasts) ==
    [ roast_categories |-> [i \in 1..Len(roasts) |-> roasts[i].severity],
      severity_levels |-> [i \in 1..Len(roasts) |-> roasts[i].category] ]

\* lines 224-225
Metadata(roasts) ==
    [ roast_categories |-> [i \in 1..Len(roasts) |-> roasts[i].category],
      severity_levels |-> [i \in 1..Len(roasts) |-> roasts[i].severity] ]

\* lines 217-227
AiBody(outcome) ==
    [ roasts |-> [i \in 1..Len(outcome.roasts) |-> outcome.roasts[i].text],
      source |-> "ai",
      overall_tone |-> outcome.overall_tone,
      metadata |-> Metadata(outcome.roasts) ]

\* whether the handler reaches line 197 and calls the external service
CallsService(req, env) == KeyConfigured(env) /\ ~PromptActiveTime(req).raised

\* the try block, lines 185-227; the prompt built at line 194 goes to the
\* external service, so the handler depends only on whether building it raised
TryBlock(req, env, outcome) ==
    IF ~KeyConfigured(env)
    THEN Raised(HTTPException(500,
            "Gemini API key not configured. Please set GEMINI_API_KEY environment variable."))
    ELSE IF PromptActiveTime(req).raised THEN Raised(PromptActiveTime(req).exc)
    ELSE IF outcome.kind = "raise" THEN Raised(outcome.exc)
    ELSE IF AiFailed(outcome) THEN Returned(FallbackBody(req))
    ELSE Returned(AiBody(outcome))

\* mutant: the except clause lets the exception leave the handler
ExceptClause_Reraise(req, exc) ==
    [status |-> exc.status_code, body |-> [detail |-> exc.detail]]

\* the except clause, lines 229-233; an exception it does not catch leaves
\* the handler and the framework answers with its status and detail
ExceptClause(req, exc) ==
    IF DerivesFromException(exc.class)
    THEN [status |-> 200, body |-> FallbackBody(req)]
    ELSE [status |-> exc.status_code, body |-> [detail |-> exc.detail]]

generate_roasts(req, env, outcome) ==
    LET r == TryBlock(req, env, outcome) IN
    IF r.raised THEN ExceptClause(req, r.exc)
    ELSE [status |-> r.status, body |-> r.body]

\* lines 73-79
root == [message |-> "GitShame Roaster API - Ready to serve some digital humble pie!"]
health_check == [status |-> "healthy", service |-> "GitShame Roaster API"]

(***************************************************************************)
(* Inputs.                                                                 *)
(***************************************************************************)
\* a dict that holds key k with one of the values, or lacks it
Optional(k, values) == {EmptyDict} \cup {(k :> v) : v \in values}

TimeKeys == {"afternoon", "night"}

\* every insertion-ordered mapping from some of the TimeKeys to 0..MaxCommits
TimeOfDayMaps ==
    { ps \in UNION {[1..n -> TimeKeys \X (0..MaxCommits)] : n \in 0..Cardinality(TimeKeys)} :
        \A i, j \in 1..Len(ps) : i # j => ps[i][1] # ps[j][1] }

\* the timeOfDay mapping of the integration-test payload
PayloadTimeOfDay ==
    << <<"morning", 0>>, <<"afternoon", 1>>, <<"evening", 0>>, <<"night", 4>> >>

PayloadQuestionable ==
    << "fix stuff", "why doesn't this work???", "oops forgot to commit", "WTF is this code" >>

Logins == {"testuser", "octocat"}

User(login) ==
    [ login |-> login, name |-> Some("Test Developer"),
      bio |-> Some("I code at 3 AM and drink too much coffee"),
      public_repos |-> 15, followers |-> 42, following |-> 200 ]

\* src/server/integration_test.py, sample_payload: repos and commit messages
PayloadRepos ==
    << [ name |-> "my-awesome-project",
         description |-> Some("Yet another TODO app that will change the world"),
         language |-> Some("JavaScript") ],
       [ name |-> "hello-world-v2", description |-> PyNone, language |-> Some("Python") ],
       [ name |-> "definitely-not-copied",
         description |-> Some("Original work do not steal"),
         language |-> Some("TypeScript") ] >>

PayloadCommits ==
    << "fix stuff", "why doesn't this work???", "finally!!!",
       "oops forgot to commit", "WTF is this code" >>

PayloadLanguages == << <<"JavaScript", 1>>, <<"Python", 1>>, <<"TypeScript", 1>> >>
PayloadTopEmojis == << ("emoji" :> ":tada:") @@ ("count" :> 3) >>
PayloadNamingPatterns == << "kebab-case", "hasApp" >>

MkRequest(login, userStats, commitPatterns, emojiUsage, repoAnalysis, commitLanguage) ==
    [ user |-> User(login),
      repos |-> PayloadRepos,
      commits |-> PayloadCommits,
      analysis |-> [ userStats |-> userStats, commitPatterns |-> commitPatterns,
                     emojiUsage |-> emojiUsage, repoAnalysis |-> repoAnalysis,
                     commitLanguage |-> commitLanguage ] ]

\* src/server/integration_test.py, sample_payload (followRatio 0.21)
IntegrationPayload ==
    MkRequest("testuser",
              ("accountAge" :> 1500) @@ ("followRatio" :> 21) @@ ("repoToStarRatio" :> 33),
              ("timeOfDay" :> PayloadTimeOfDay),
              ("count" :> 3) @@ ("topEmojis" :> PayloadTopEmojis),
              ("abandonedRepos" :> 1) @@ ("oneCommitWonders" :> 0)
                  @@ ("namingPatterns" :> PayloadNamingPatterns)
                  @@ ("languages" :> PayloadLanguages),
              ("averageLength" :> 18) @@ ("questionableMessages" :> PayloadQuestionable))

UserStatsOf(ages, ratios) ==
    { a @@ f : a \in Optional("accountAge", ages), f \in Optional("followRatio", ratios) }

CommitLanguageOf(lengths, messages) ==
    { l @@ q : l \in Optional("averageLength", lengths),
               q \in Optional("questionableMessages", messages) }

\* requests that vary what generate_fallback_roasts reads
FallbackRequests ==
    { MkRequest(l, us, cp, eu, ra, ("averageLength" :> 18)) :
        l \in Logins,
        us \in UserStatsOf({364, 365, 3650, 3651, 4015}, {49, 50}),
        cp \in Optional("timeOfDay", TimeOfDayMaps),
        eu \in Optional("count", {0, 5, 10, 11}),
        ra \in Optional("abandonedRepos", {0, 1, 3}) }

\* requests that vary what analyze_roast_potential reads
ScoreRequests ==
    { MkRequest("octocat", us, cp, eu, ra, cl) :
        us \in UserStatsOf({1500}, {29, 30}),
        cp \in Optional("timeOfDay", TimeOfDayMaps),
        eu \in Optional("count", {0, 15, 16}),
        ra \in Optional("abandonedRepos", {2, 3}),
        cl \in CommitLanguageOf({9, 10}, {<< >>, PayloadQuestionable}) }

RuleRequests == FallbackRequests \cup ScoreRequests \cup {IntegrationPayload}

\* requests sent to the endpoints of the running service
ServiceRequests ==
    { MkRequest(l, us, cp, eu, ra, cl) :
        l \in Logins,
        us \in UserStatsOf({4015}, {50}),
        cp \in {EmptyDict, ("timeOfDay" :> PayloadTimeOfDay)},
        eu \in Optional("count", {11}),
        ra \in Optional("abandonedRepos", {3}),
        cl \in CommitLanguageOf({9}, {PayloadQuestionable}) }
    \cup {IntegrationPayload}

SharedKeys == << "accountAge", "followRatio", "timeOfDay", "count", "abandonedRepos" >>
OtherKeys ==
    << "repoToStarRatio", "topEmojis", "oneCommitWonders", "namingPatterns",
       "languages", "questionableMessages", "averageLength" >>

\* the zero or empty value of each key, and a value of the integration payload
SharedZero == << 0, 0, << >>, 0, 0 >>
SharedValue == << 1500, 21, PayloadTimeOfDay, 3, 1 >>
OtherZero == << 0, << >>, 0, << >>, << >>, << >>, 0 >>
OtherValue ==
    << 33, PayloadTopEmojis, 2, PayloadNamingPatterns, PayloadLanguages,
       PayloadQuestionable, 18 >>

\* per key, the dicts it may contribute: none (absent), zero or a value
Free(keys, zero, value) ==
    [i \in 1..Len(keys) |-> {EmptyDict, keys[i] :> zero[i], keys[i] :> value[i]}]

\* per key one dict: all keys absent, all zero, or all holding a value
Uniform(keys, zero, value) ==
    { [i \in 1..Len(keys) |-> {EmptyDict}],
      [i \in 1..Len(keys) |-> {keys[i] :> zero[i]}],
      [i \in 1..Len(keys) |-> {keys[i] :> value[i]}] }

\* the requests whose analysis dicts are put together from one contribution
\* per key
DefaultFamily(shared, other) ==
    { MkRequest("testuser",
                age @@ ratio @@ stars, times, count @@ emojis,
                abandoned @@ wonders @@ naming @@ languages, messages @@ length) :
        age \in shared[1], ratio \in shared[2], times \in shared[3],
        count \in shared[4], abandoned \in shared[5],
        stars \in other[1], emojis \in other[2], wonders \in other[3],
        naming \in other[4], languages \in other[5], messages \in other[6],
        length \in other[7] }

\* every combination of absent, zero and set over the keys several functions
\* read with the other keys uniform, and the converse
DefaultRequests ==
    UNION { DefaultFamily(Free(SharedKeys, SharedZero, SharedValue), o) :
                o \in Uniform(OtherKeys, OtherZero, OtherValue) }
        \cup UNION { DefaultFamily(sh, Free(OtherKeys, OtherZero, OtherValue)) :
                sh \in Uniform(SharedKeys, SharedZero, SharedValue) }

\* the process environment: the credential unset, empty or set
Environments ==
    { EmptyDict, ("GEMINI_API_KEY" :> ""), ("GEMINI_API_KEY" :> "secret") }

RoastLines ==
    { [text |-> "t1", category |-> "coding_habits", severity |-> "mild"],
      [text |-> "t2", category |-> "general", severity |-> "savage"],
      [text |-> "t1", category |-> "general", severity |-> "medium"],
      [text |-> "t3", category |-> "commit_messages", severity |-> "savage"] }

\* the i-th entry of a long returned list
LongLine(i) ==
    [ text |-> "roast " \o ToString(i),
      category |-> IF i % 2 = 0 THEN "repo_patterns" ELSE "social_metrics",
      severity |-> IF i % 3 = 0 THEN "savage" ELSE "mild" ]

RoastLists ==
    UNION {[1..n -> RoastLines] : n \in 0..MaxVariedRoasts}
        \cup {[i \in 1..n |-> LongLine(i)] : n \in 1..MaxAiRoasts}

Tones == {"rookie", "chaos_engineer"}

ServiceErrors == {ServiceError("APIError"), ServiceError("ConnectError")}

\* what the external call can do
Outcomes ==
    {[kind |-> "raise", exc |-> e] : e \in ServiceErrors}
        \cup {[kind |-> "none"]}
        \cup {[kind |-> "parsed", roasts |-> rs, overall_tone |-> t] : rs \in RoastLists, t \in Tones}

NotCalled == [kind |-> "not_called"]
NoResponse == [status |-> 0]

(***************************************************************************)
(* The service: one request, the four endpoints.                           *)
(***************************************************************************)
Init ==
    /\ request \in ServiceRequests
    /\ environ \in Environments
    /\ op = "none"
    /\ call = NotCalled
    /\ response = NoResponse

Root ==
    /\ op' = "root"
    /\ call' = NotCalled
    /\ response' = [status |-> 200, body |-> root]
    /\ UNCHANGED <<request, environ>>

HealthCheck ==
    /\ op' = "health_check"
    /\ call' = NotCalled
    /\ response' = [status |-> 200, body |-> health_check]
    /\ UNCHANGED <<request, environ>>

GenerateRoasts ==
    \E outcome \in Outcomes :
        /\ op' = "generate_roasts"
        /\ call' = IF CallsService(request, environ) THEN outcome ELSE NotCalled
        /\ response' = generate_roasts(request, environ, outcome)
        /\ UNCHANGED <<request, environ>>

AnalyzeRoastPotential ==
    /\ op' = "analyze_roast_potential"
    /\ call' = NotCalled
    /\ response' = [status |-> 200, body |-> analyze_roast_potential(request)]
    /\ UNCHANGED <<request, environ>>

Next == Root \/ HealthCheck \/ GenerateRoasts \/ AnalyzeRoastPotential

Spec == Init /\ [][Next]_vars

(***************************************************************************)
(* The rule engines alone, over every input of RuleRequests.               *)
(***************************************************************************)
InitRules ==
    /\ request \in RuleRequests
    /\ environ = ("GEMINI_API_KEY" :> "secret")
    /\ op = "none"
    /\ call = NotCalled
    /\ response = NoResponse

FallbackRoasts ==
    /\ op' = "generate_fallback_roasts"
    /\ call' = NotCalled
    /\ response' = [status |-> 200, body |-> [roasts |-> generate_fallback_roasts(request)]]
    /\ UNCHANGED <<request, environ>>

CreateRoastPrompt ==
    /\ op' = "create_roast_prompt"
    /\ call' = NotCalled
    /\ response' = LET p == create_roast_prompt(request) IN
                   IF p.raised THEN [status |-> 500, body |-> [error |-> p.exc.class]]
                   ELSE [status |-> 200, body |-> [prompt |-> p.value]]
    /\ UNCHANGED <<request, environ>>

NextRules == FallbackRoasts \/ AnalyzeRoastPotential \/ CreateRoastPrompt

SpecRules == InitRules /\ [][NextRules]_vars

(***************************************************************************)
(* Properties.                                                             *)
(***************************************************************************)
Roasts == response.body.roasts

\* the external call failed: it raised, parsed nothing, or parsed no roasts
CallFailed ==
    \/ call.kind \in {"raise", "none"}
    \/ call.kind = "parsed" /\ call.roasts = << >>

\* C1: when the external call raises, or returns no parsed result or an
\* empty roasts list, the generate_roasts response is a 200 whose source is
\* "fallback" and whose roasts are generate_fallback_roasts of the request;
\* no exception reaches the client.
C1_FailureFallsBack ==
    (op = "generate_roasts" /\ CallFailed) =>
        /\ response.status = 200
        /\ DOMAIN response.body = {"roasts", "source", "overall_tone"}
        /\ response.body.source = "fallback"
        /\ Roasts = generate_fallback_roasts(request)

C1_Witness ==
    /\ op = "generate_roasts"
    /\ call.kind = "raise"
    /\ response.status = 200
    /\ response.body.source = "fallback"

\* C2: with GEMINI_API_KEY missing when generate_roasts is called, the
\* caller receives an explicit HTTP 500 with a descriptive message and not
\* a fallback response.
C2_MissingKeyIsExplicitError ==
    (op = "generate_roasts" /\ ~KeyConfigured(environ)) =>
        /\ response.status = 500
        /\ "detail" \in DOMAIN response.body

\* C3 as stated: every generate_roasts response, AI path included, carries
\* between 1 and 8 roasts whatever the external service returned.
C3_RoastsBetween1And8 ==
    (op = "generate_roasts" /\ response.status = 200) =>
        /\ Len(Roasts) >= 1
        /\ Len(Roasts) <= 8

\* C3 amended: every generate_roasts response carries at least 1 roast; on
\* the fallback path at most 6; on the AI path exactly as many as the
\* external service returned, with no upper limit.
C3_RoastsAtLeastOne ==
    op = "generate_roasts" =>
        /\ response.status = 200
        /\ Len(Roasts) >= 1
        /\ response.body.source = "fallback" => Len(Roasts) <= 6
        /\ response.body.source = "ai" => (call.kind = "parsed" /\ Len(Roasts) = Len(call.roasts))

C3_Witness ==
    /\ op = "generate_roasts"
    /\ response.status = 200
    /\ response.body.source = "ai"
    /\ Len(Roasts) > 8

\* C4: generate_fallback_roasts returns at least 1 and at most 6 strings.
C4_FallbackBetween1And6 ==
    op = "generate_fallback_roasts" =>
        /\ Len(Roasts) >= 1
        /\ Len(Roasts) <= 6

\* no rule fires and the output is still not empty
C4_Witness ==
    /\ op = "generate_fallback_roasts"
    /\ RuleRoasts(request) = << >>
    /\ Len(Roasts) >= 1

\* C5: roast_score is an integer from 0 to 105; the level is
\* highly_roastable exactly from 60, moderately_roastable exactly from 30
\* to 59, minimally_roastable exactly below 30.
C5_ScoreRangeAndLevel ==
    op = "analyze_roast_potential" =>
        LET score == response.body.roast_score
            level == response.body.roastability_level
        IN /\ score \in 0..105
           /\ level = "highly_roastable" <=> score >= 60
           /\ level = "moderately_roastable" <=> (score >= 30 /\ score < 60)
           /\ level = "minimally_roastable" <=> score < 30

C5_Witness ==
    /\ op = "analyze_roast_potential"
    /\ response.body.roast_score = 60
    /\ response.body.roastability_level = "highly_roastable"

\* the scoring table of the claim, evaluated rule by rule on the request
C6_Table ==
    LET a == request.analysis
        count == Get(a.emojiUsage, "count", 0)
        times == Get(a.commitPatterns, "timeOfDay", << >>)
    IN << [ tag |-> "questionable_commits", weight |-> 20,
            on |-> Get(a.commitLanguage, "questionableMessages", << >>) # << >> ],
          [ tag |-> IF count > 15 THEN "emoji_overuse" ELSE "emoji_drought",
            weight |-> IF count > 15 THEN 15 ELSE 10,
            on |-> count > 15 \/ count = 0 ],
          [ tag |-> "repo_abandonment", weight |-> 25,
            on |-> Get(a.repoAnalysis, "abandonedRepos", 0) > 2 ],
          [ tag |-> "social_awkwardness", weight |-> 15,
            on |-> Get(a.userStats, "followRatio", 100) < 30 ],
          [ tag |-> "night_owl_coding", weight |-> 20,
            on |-> 2 * PairsGet(times, "night", 0) > SumValues(times) ],
          [ tag |-> "lazy_commit_messages", weight |-> 10,
            on |-> Get(a.commitLanguage, "averageLength", 0) < 10 ] >>

C6_IsOn(e) == e.on

\* C6: roast_factors holds exactly the tags of the rules whose condition is
\* true, once each and in table order, roast_score is the sum of their
\* weights, and the integration-test payload scores 55, moderately_roastable.
C6_FactorsAndSum ==
    op = "analyze_roast_potential" =>
        LET fired == SelectSeq(C6_Table, C6_IsOn) IN
        /\ response.body.roast_factors = [i \in 1..Len(fired) |-> fired[i].tag]
        /\ response.body.roast_score = SumSeq([i \in 1..Len(fired) |-> fired[i].weight])
        /\ request = IntegrationPayload =>
            /\ response.body.roast_score = 55
            /\ response.body.roastability_level = "moderately_roastable"

C6_Witness ==
    /\ op = "analyze_roast_potential"
    /\ request = IntegrationPayload
    /\ response.body.roast_score = 55
    /\ response.body.roast_factors =
         << "questionable_commits", "social_awkwardness", "night_owl_coding" >>

\* the five fallback rules of the claim, evaluated one by one on the request
C7_Table ==
    LET a == request.analysis
        age == Get(a.userStats, "accountAge", 0)
        count == Get(a.emojiUsage, "count", 0)
        times == Get(a.commitPatterns, "timeOfDay", << >>)
        abandoned == Get(a.repoAnalysis, "abandonedRepos", 0)
    IN << [ text |-> IF age < 365 THEN NewAccountRoast(request.user.login)
                     ELSE VeteranRoast(age),
            on |-> age < 365 \/ age > 3650 ],
          [ text |-> NightOwlRoast,
            on |-> 10 * PairsGet(times, "night", 0) > 4 * SumValues(times) ],
          [ text |-> IF count > 10 THEN EmojiOveruseRoast ELSE EmojiDroughtRoast,
            on |-> count > 10 \/ count = 0 ],
          [ text |-> AbandonedRoast(abandoned), on |-> abandoned > 0 ],
          [ text |-> FollowRatioRoast,
            on |-> Get(a.userStats, "followRatio", 0) < 50 ] >>

C7_IsOn(e) == e.on

\* C7: every fallback rule runs whether or not earlier rules fired: the
\* output starts with the roasts of exactly the triggered rules in the order
\* account age, night owl, emoji, abandoned repos, follow ratio; for the
\* integration-test payload the output is the night-owl roast, the
\* abandoned-repos roast mentioning 1 and the follow-ratio roast, no more.
C7_AllRulesRun ==
    op = "generate_fallback_roasts" =>
        LET fired == SelectSeq(C7_Table, C7_IsOn) IN
        /\ Len(Roasts) >= Len(fired)
        /\ SubSeq(Roasts, 1, Len(fired)) = [i \in 1..Len(fired) |-> fired[i].text]
        /\ \A i \in Len(fired)+1..Len(Roasts) : Roasts[i] = FillerRoasts[i - Len(fired)]
        /\ request = IntegrationPayload =>
            Roasts = << NightOwlRoast,
                        "You have 1 abandoned repos. GitHub isn't a graveyard for your coding dreams!",
                        FollowRatioRoast >>

C7_Witness ==
    /\ op = "generate_fallback_roasts"
    /\ request = IntegrationPayload
    /\ Len(Roasts) = 3
    /\ Roasts[1] = NightOwlRoast

\* timeOfDay is absent, empty, or holds only zeros
C8_NoCommits ==
    LET times == Get(request.analysis.commitPatterns, "timeOfDay", << >>) IN
    \A i \in 1..Len(times) : times[i][2] = 0

\* C8: when every timeOfDay value is 0 (or the mapping is empty or absent)
\* generate_fallback_roasts returns a list without the night-owl roast and
\* analyze_roast_potential returns factors without night_owl_coding.
C8_ZeroCommitsNoNightOwl ==
    C8_NoCommits =>
        /\ op = "generate_fallback_roasts" =>
             \A i \in 1..Len(Roasts) : Roasts[i] # NightOwlRoast
        /\ op = "analyze_roast_potential" =>
             \A i \in 1..Len(response.body.roast_factors) :
                 response.body.roast_factors[i] # "night_owl_coding"

C8_Witness ==
    /\ op = "generate_fallback_roasts"
    /\ Get(request.analysis.commitPatterns, "timeOfDay", << >>)
         = << <<"night", 0>>, <<"afternoon", 0>> >>
    /\ \A i \in 1..Len(Roasts) : Roasts[i] # NightOwlRoast

C9_NewAccountTexts ==
    { "Welcome to GitHub, " \o l \o "! Still figuring out what a commit is, I see." : l \in Logins }

C9_VeteranText(years) ==
    "Been here " \o ToString(years)
        \o " years and still haven't learned to write decent commit messages? Classic!"

C9_VeteranTexts == { C9_VeteranText(y) : y \in 0..20 }

\* C9: with accountAge below 365 the first fallback roast is the new-account
\* roast naming the login; above 3650 it is the veteran roast stating
\* accountAge // 365 years; the output never holds both, and from 365 to
\* 3650 it holds neither.
C9_AccountAgeRoast ==
    op = "generate_fallback_roasts" =>
        LET age == Get(request.analysis.userStats, "accountAge", 0)
            hasNew == \E i \in 1..Len(Roasts) : Roasts[i] \in C9_NewAccountTexts
            hasVeteran == \E i \in 1..Len(Roasts) : Roasts[i] \in C9_VeteranTexts
        IN /\ age < 365 =>
                Roasts[1] = "Welcome to GitHub, " \o request.user.login
                                \o "! Still figuring out what a commit is, I see."
           /\ age > 3650 =>
                \E y \in 0..20 : /\ y * 365 <= age
                                 /\ age < (y + 1) * 365
                                 /\ Roasts[1] = C9_VeteranText(y)
           /\ ~(hasNew /\ hasVeteran)
           /\ (age >= 365 /\ age <= 3650) => (~hasNew /\ ~hasVeteran)

C9_Witness ==
    /\ op = "generate_fallback_roasts"
    /\ Get(request.analysis.userStats, "accountAge", 0) = 4015
    /\ Roasts[1] = "Been here 11 years and still haven't learned to write decent commit messages? Classic!"

\* C10: when a generate_roasts response carries metadata, roast_categories
\* and severity_levels are as long as roasts, and entry i of the three lists
\* is the text, category and severity of the i-th returned roast object.
C10_MetadataParallel ==
    (op = "generate_roasts" /\ response.status = 200 /\ "metadata" \in DOMAIN response.body) =>
        LET meta == response.body.metadata IN
        /\ call.kind = "parsed"
        /\ Len(Roasts) = Len(call.roasts)
        /\ Len(meta.roast_categories) = Len(Roasts)
        /\ Len(meta.severity_levels) = Len(Roasts)
        /\ \A i \in 1..Len(Roasts) :
              /\ Roasts[i] = call.roasts[i].text
              /\ meta.roast_categories[i] = call.roasts[i].category
              /\ meta.severity_levels[i] = call.roasts[i].severity

C10_Witness ==
    /\ op = "generate_roasts"
    /\ response.status = 200
    /\ "metadata" \in DOMAIN response.body
    /\ Len(Roasts) = 2
    /\ response.body.metadata.roast_categories = << "general", "coding_habits" >>
    /\ response.body.metadata.severity_levels = << "savage", "mild" >>

\* the prompt line that names the most active time
C12_ActiveTimeLine == response.body.prompt[9]

\* C12: the most active time of the prompt is a key of timeOfDay holding the
\* maximum value, the first such key in insertion order when several share
\* it, and 'unknown' when timeOfDay is empty or absent.
C12_MostActiveTime ==
    op = "create_roast_prompt" =>
        LET times == Get(request.analysis.commitPatterns, "timeOfDay", << >>) IN
        /\ response.status = 200
        /\ times = << >> => C12_ActiveTimeLine = "- Most Active Time: unknown"
        /\ times # << >> =>
             \E i \in 1..Len(times) :
                 /\ \A j \in 1..Len(times) : times[j][2] <= times[i][2]
                 /\ \A j \in 1..(i - 1) : times[j][2] < times[i][2]
                 /\ C12_ActiveTimeLine = "- Most Active Time: " \o times[i][1]

\* two keys share the maximum and the first inserted one is named
C12_Witness ==
    /\ op = "create_roast_prompt"
    /\ response.status = 200
    /\ Get(request.analysis.commitPatterns, "timeOfDay", << >>)
         = << <<"night", 2>>, <<"afternoon", 2>> >>
    /\ C12_ActiveTimeLine = "- Most Active Time: night"

C13_Fillers ==
    << "Your code commits tell a story... mostly about debugging at 2 AM!",
       "I've seen more organization in a tornado than in your repository structure!",
       "Your commit messages are like modern art - nobody understands them, but everyone pretends they do!" >>

\* C13: the three filler roasts are appended exactly when the rules
\* produced fewer than 3 roasts; then all three close the returned output in
\* their fixed order after every rule roast, and otherwise the output holds
\* no filler.
C13_FillersWhenFewerThan3 ==
    op = "generate_fallback_roasts" =>
        LET fired == SelectSeq(C7_Table, C7_IsOn)
            n == Len(fired)
        IN /\ n < 3 => Roasts = [i \in 1..n |-> fired[i].text] \o C13_Fillers
           /\ n >= 3 => \A i \in 1..Len(Roasts) : \A k \in 1..3 : Roasts[i] # C13_Fillers[k]

C13_Witness ==
    /\ op = "generate_fallback_roasts"
    /\ Len(SelectSeq(C7_Table, C7_IsOn)) = 2
    /\ Len(Roasts) = 5
    /\ SubSeq(Roasts, 3, 5) = C13_Fillers

\* C14: the list generate_fallback_roasts builds before truncation has 3 to
\* 5 entries, so the truncation to 6 removes nothing and the returned output
\* has 3, 4 or 5 strings.
C14_ThreeToFive ==
    op = "generate_fallback_roasts" =>
        /\ Len(UntruncatedRoasts(request)) \in 3..5
        /\ Roasts = UntruncatedRoasts(request)
        /\ Len(Roasts) \in {3, 4, 5}

\* all five rules fire
C14_Witness ==
    /\ op = "generate_fallback_roasts"
    /\ Len(RuleRoasts(request)) = 5
    /\ Len(Roasts) = 5

(***************************************************************************)
(* The three deterministic functions over requests with absent, zero and   *)
(* empty analysis keys.                                                    *)
(***************************************************************************)
InitDefaults ==
    /\ request \in DefaultRequests
    /\ environ = ("GEMINI_API_KEY" :> "secret")
    /\ op = "none"
    /\ call = NotCalled
    /\ response = NoResponse

NextDefaults == CreateRoastPrompt \/ FallbackRoasts \/ AnalyzeRoastPotential

SpecDefaults == InitDefaults /\ [][NextDefaults]_vars

\* the request with every absent key set to the default the claim names:
\* 0 for a number, empty for a list or mapping
C11_Filled(followDefault) ==
    LET a == request.analysis IN
    [ request EXCEPT !.analysis =
        [ userStats |-> a.userStats @@ ("accountAge" :> 0)
                            @@ ("followRatio" :> followDefault) @@ ("repoToStarRatio" :> 0),
          commitPatterns |-> a.commitPatterns @@ ("timeOfDay" :> << >>),
          emojiUsage |-> a.emojiUsage @@ ("count" :> 0) @@ ("topEmojis" :> << >>),
          repoAnalysis |-> a.repoAnalysis @@ ("abandonedRepos" :> 0)
                            @@ ("oneCommitWonders" :> 0) @@ ("namingPatterns" :> << >>)
                            @@ ("languages" :> << >>),
          commitLanguage |-> a.commitLanguage @@ ("questionableMessages" :> << >>)
                            @@ ("averageLength" :> 0) ] ]

\* C11: with any of the analysis keys absent, zero or empty,
\* create_roast_prompt, generate_fallback_roasts and analyze_roast_potential
\* each return a result and none ends in an error; an absent key gives the
\* result that its default gives (0 or empty; 1 for the scorer's followRatio).
C11_DefaultsNeverFail ==
    /\ op # "none" => response.status = 200
    /\ op = "create_roast_prompt" =>
         /\ Len(response.body.prompt) >= 18
         /\ Value(response.body.prompt) = create_roast_prompt(C11_Filled(0))
    /\ op = "generate_fallback_roasts" =>
         /\ Len(Roasts) >= 1
         /\ Roasts = generate_fallback_roasts(C11_Filled(0))
    /\ op = "analyze_roast_potential" =>
         response.body = analyze_roast_potential(C11_Filled(100))

\* every analysis key is absent and the prompt is still built
C11_Witness ==
    /\ op = "create_roast_prompt"
    /\ response.status = 200
    /\ \A d \in DOMAIN request.analysis : DOMAIN request.analysis[d] = {}
    /\ response.body.prompt[9] = "- Most Active Time: unknown"
    /\ response.body.prompt[8] = "- Primary Languages: None detected"

====
